---- MODULE Spec2Model ----
(***************************************************************************)
(* Payment initiation, callback reconciliation, voucher redemption and the *)
(* subscription ledger of SureOdds, as a state machine over the store.     *)
(*                                                                         *)
(* Time is counted in minutes.  Every in-flight HTTP request is a worker;  *)
(* a handler that awaits the store between a read and a write is split at  *)
(* that await, so that other requests interleave there.  PostgreSQL runs   *)
(* Prisma's interactive transaction at READ COMMITTED: its writes are      *)
(* staged in the worker and become visible at commit, each statement sees  *)
(* what is committed when it runs, and an UPDATE of a row waits for the    *)
(* transaction that holds the row.                                         *)
(***************************************************************************)
EXTENDS Integers, Sequences, FiniteSets, TLC

\* ---------------------------------------------------------------- bounds
NumUsers == 2
MaxTx == 2
NumWorkers == 2
MaxTicks == 2
MaxSubs == 3
MaxCalls == 2
MaxVouchers == 1
MaxSeps == 2
MaxPredictions == 2

\* ------------------------------------------------------ program constants
DayMinutes == 1440
WeekDays == 7
MonthDays == 30
PendingWindow == 5
VoucherValidDays == 7
MinPhoneLen == 9
PriceDaily == 50
PriceWeekly == 250
PriceMonthly == 800
PollIntervalMs == 3000
PollWindowMs == 120000

Users == 1..NumUsers
Workers == 1..NumWorkers
PlanTypes == {"DAILY", "WEEKLY", "MONTHLY"}
NULL == "null"
NoPhone == <<>>
NoSession == [loggedIn |-> FALSE, phone |-> NoPhone,
              hasActiveSubscription |-> FALSE]
NoSubscription == [planType |-> NULL, endDate |-> 0]

\* the clock advances in steps that straddle the 5-minute window and a day
TickSteps == {3, PendingWindow + 1, DayMinutes}

\* raw phone inputs, one character per element
ValidPhone == <<"0","7","1","2","3","4","5","6","7","8">>
ShortPhone == <<"7","1","2","3">>
RawPhones == {ValidPhone, ShortPhone}


VARIABLES now, ticks, transactions, subscriptions, vouchers, userPhone,
          session, wk, stkCalls, response, client, predictions

vars == <<now, ticks, transactions, subscriptions, vouchers, userPhone,
          session, wk, stkCalls, response, client, predictions>>

store == <<transactions, subscriptions, vouchers, userPhone>>

\* ------------------------------------------------------------ lib/mpesa
StartsWith(s, p) == Len(s) >= Len(p) /\ SubSeq(s, 1, Len(p)) = p

Digits == {"0","1","2","3","4","5","6","7","8","9"}

IsDigit(c) == c \in Digits

\* faulty variant: separators are left in the string
formatPhoneNumber_Unstripped(phone) ==
  LET cleaned == phone
  IN  IF StartsWith(cleaned, <<"0">>)
        THEN <<"2","5","4">> \o SubSeq(cleaned, 2, Len(cleaned))
      ELSE IF StartsWith(cleaned, <<"+","2","5","4">>)
        THEN SubSeq(cleaned, 2, Len(cleaned))
      ELSE IF ~StartsWith(cleaned, <<"2","5","4">>)
        THEN <<"2","5","4">> \o cleaned
      ELSE cleaned

formatPhoneNumber(phone) ==
  LET cleaned == SelectSeq(phone, IsDigit)
  IN  IF StartsWith(cleaned, <<"0">>)
        THEN <<"2","5","4">> \o SubSeq(cleaned, 2, Len(cleaned))
      ELSE IF StartsWith(cleaned, <<"+","2","5","4">>)
        THEN SubSeq(cleaned, 2, Len(cleaned))
      ELSE IF ~StartsWith(cleaned, <<"2","5","4">>)
        THEN <<"2","5","4">> \o cleaned
      ELSE cleaned

PlanDuration(planType) ==
  CASE planType = "DAILY" -> DayMinutes
    [] planType = "WEEKLY" -> WeekDays * DayMinutes
    [] planType = "MONTHLY" -> MonthDays * DayMinutes
    [] OTHER -> DayMinutes

\* faulty variant: every plan runs a month
calculateEndDate_Month(planType, t) == t + MonthDays * DayMinutes

calculateEndDate(planType, t) == t + PlanDuration(planType)

getPlanPrice(planType) ==
  CASE planType = "DAILY" -> PriceDaily
    [] planType = "WEEKLY" -> PriceWeekly
    [] planType = "MONTHLY" -> PriceMonthly
    [] OTHER -> PriceDaily


\* callback payloads: body.Body.stkCallback is absent, or carries the result
\* hasEnvelope: body.Body.stkCallback exists; hasItems: CallbackMetadata.Item
Malformed ==
  [hasEnvelope |-> FALSE, CheckoutRequestID |-> 0, ResultCode |-> 0,
   ResultDesc |-> NULL, hasItems |-> FALSE, Item |-> <<>>]

Body(cid, rc, desc, items) ==
  [hasEnvelope |-> TRUE, CheckoutRequestID |-> cid, ResultCode |-> rc,
   ResultDesc |-> desc, hasItems |-> items # <<>>, Item |-> items]

ReceiptItems ==
  <<[Name |-> "Amount", Value |-> "250"],
    [Name |-> "MpesaReceiptNumber", Value |-> "R1"]>>

ItemLists == {<<>>, ReceiptItems}

ResultDescs == {"processed", "cancelled", "timeout"}

CallbackBodies ==
  {Malformed} \cup
  { Body(c, rc, d, it) :
      c \in 1..(MaxTx + 1), rc \in {0, 1}, d \in ResultDescs, it \in ItemLists }

RECURSIVE ReceiptOf(_, _)
ReceiptOf(items, acc) ==
  IF items = <<>> THEN acc
  ELSE ReceiptOf(Tail(items),
                 IF Head(items).Name = "MpesaReceiptNumber"
                   THEN Head(items).Value ELSE acc)

\* faulty variant: a success payload without a receipt is rejected
parseCallback_Strict(body) ==
  LET callback == body
      receipt == IF callback.ResultCode = 0 /\ callback.hasItems
                   THEN ReceiptOf(callback.Item, NULL) ELSE NULL
  IN  IF ~callback.hasEnvelope \/ (callback.ResultCode = 0 /\ receipt = NULL)
        THEN [ok |-> FALSE, checkoutRequestId |-> 0, resultCode |-> 0,
              resultDesc |-> NULL, mpesaReceiptNumber |-> NULL]
        ELSE [ok |-> TRUE,
              checkoutRequestId |-> callback.CheckoutRequestID,
              resultCode |-> callback.ResultCode,
              resultDesc |-> callback.ResultDesc,
              mpesaReceiptNumber |-> receipt]

\* ok = FALSE stands for the thrown 'Invalid callback body'
parseCallback(body) ==
  LET callback == body
  IN  IF ~callback.hasEnvelope
        THEN [ok |-> FALSE, checkoutRequestId |-> 0, resultCode |-> 0,
              resultDesc |-> NULL, mpesaReceiptNumber |-> NULL]
        ELSE [ok |-> TRUE,
              checkoutRequestId |-> callback.CheckoutRequestID,
              resultCode |-> callback.ResultCode,
              resultDesc |-> callback.ResultDesc,
              mpesaReceiptNumber |->
                IF callback.ResultCode = 0 /\ callback.hasItems
                  THEN ReceiptOf(callback.Item, NULL) ELSE NULL]

\* ---------------------------------------------------------------- store
\* faulty variant: the lookup ignores the id
FindByCheckout_Any(cid) == IF Len(transactions) > 0 THEN 1 ELSE 0

\* prisma.transaction.findUnique({ where: { checkoutRequestID } }); 0 = null
FindByCheckout(cid) ==
  IF \E i \in 1..Len(transactions) : transactions[i].checkoutRequestID = cid
    THEN CHOOSE i \in 1..Len(transactions) :
           transactions[i].checkoutRequestID = cid
    ELSE 0

\* faulty variant: gt in place of gte
ActiveSubs_Strict(u, t) ==
  { j \in 1..Len(subscriptions) :
      /\ subscriptions[j].userId = u
      /\ subscriptions[j].isActive
      /\ subscriptions[j].endDate > t }

\* where: { userId, isActive: true, endDate: { gte: new Date() } }
ActiveSubs(u, t) ==
  { j \in 1..Len(subscriptions) :
      /\ subscriptions[j].userId = u
      /\ subscriptions[j].isActive
      /\ subscriptions[j].endDate >= t }

\* faulty variant: gt in place of gte on createdAt
RecentPending_Strict(u, t) ==
  { i \in 1..Len(transactions) :
      /\ transactions[i].userId = u
      /\ transactions[i].status = "PENDING"
      /\ transactions[i].createdAt > t - PendingWindow }

\* faulty variant: the window is twice as long
RecentPending_Wide(u, t) ==
  { i \in 1..Len(transactions) :
      /\ transactions[i].userId = u
      /\ transactions[i].status = "PENDING"
      /\ transactions[i].createdAt >= t - 2 * PendingWindow }

\* where: { userId, status: 'PENDING', createdAt: { gte: now - 5 min } }
RecentPending(u, t) ==
  { i \in 1..Len(transactions) :
      /\ transactions[i].userId = u
      /\ transactions[i].status = "PENDING"
      /\ transactions[i].createdAt >= t - PendingWindow }

\* faulty variant: the deactivation is not restricted to the owner
ActiveRows_AnyUser(u) ==
  { j \in 1..Len(subscriptions) : subscriptions[j].isActive }

\* where: { userId: transaction.userId, isActive: true }
ActiveRows(u) ==
  { j \in 1..Len(subscriptions) :
      subscriptions[j].userId = u /\ subscriptions[j].isActive }

\* the payment modal as it mounts: useState('idle'), no error, no id; no
\* effect is running and no fetch is in flight
IdleClient ==
  [status |-> "idle", error |-> "", checkoutRequestId |-> 0, elapsed |-> 0,
   inflight |-> {}]

\* the row of transaction i is held by an open interactive transaction
LockHeld(i) ==
  \E w \in Workers : wk[w].pc \in {"tx_deactivate", "tx_create"} /\ wk[w].txId = i

IdleWorker ==
  [pc |-> "idle", txId |-> 0, resultDesc |-> NULL, receipt |-> NULL,
   deact |-> {}, userId |-> 0, code |-> 0, at |-> 0]

Init ==
  /\ now = 0
  /\ ticks = 0
  /\ transactions = <<>>
  /\ subscriptions = <<>>
  /\ vouchers = <<>>
  /\ userPhone = [u \in Users |-> NoPhone]
  /\ session = [u \in Users |-> NoSession]
  /\ wk = [w \in Workers |-> IdleWorker]
  /\ stkCalls = 0
  /\ response = [ep |-> "none"]
  /\ client = IdleClient
  /\ predictions = <<>>

Tick(d) ==
  /\ ticks < MaxTicks
  /\ now' = now + d
  /\ ticks' = ticks + 1
  /\ UNCHANGED <<predictions, client, transactions, subscriptions, vouchers, userPhone, session,
                 wk, stkCalls, response>>

\* ------------------------------------------------- lib/auth: credentials
Login(u) ==
  /\ ~session[u].loggedIn
  /\ session' = [session EXCEPT ![u] =
                   [loggedIn |-> TRUE, phone |-> userPhone[u],
                    hasActiveSubscription |-> ActiveSubs(u, now) # {}]]
  /\ UNCHANGED <<predictions, client, now, ticks, transactions, subscriptions, vouchers, userPhone,
                 wk, stkCalls, response>>

\* ------------------------------------------------- POST /api/mpesa/callback
\* faulty variant: a caught exception is answered 500
CbAccepted_Error(log, ref) ==
  [ep |-> "callback",
   status |-> IF log = "Callback processing error" THEN 500 ELSE 200,
   ResultCode |-> IF log = "Callback processing error" THEN 1 ELSE 0,
   ResultDesc |-> "Accepted", log |-> log, ref |-> ref]

\* the reply, with the last console line and the id it names
CbAccepted(log, ref) ==
  [ep |-> "callback", status |-> 200, ResultCode |-> 0,
   ResultDesc |-> "Accepted", log |-> log, ref |-> ref]

CbProcessed(log, ref) ==
  [ep |-> "callback", status |-> 200, ResultCode |-> 0,
   ResultDesc |-> "Callback received and processed", log |-> log, ref |-> ref]

\* faulty variant: only a FAILED request counts as processed
AlreadyProcessed_OnlyFailed(t) == t.status = "FAILED"

AlreadyProcessed(t) == t.status # "PENDING"

\* data: { status: 'SUCCESS', mpesaReceipt, resultDesc }; an undefined
\* receipt leaves the column as it is
SuccessUpdate(t, receipt, desc) ==
  [t EXCEPT !.status = "SUCCESS",
            !.mpesaReceipt = IF receipt = NULL THEN @ ELSE receipt,
            !.resultDesc = desc]

\* faulty variant: the failure write drops the description
FailedUpdate_NoDesc(t, desc) == [t EXCEPT !.status = "FAILED"]

FailedUpdate(t, desc) == [t EXCEPT !.status = "FAILED", !.resultDesc = desc]

\* faulty variant: a superseded row is also cut short
Deactivate_Truncate(subs, rows) ==
  [j \in 1..Len(subs) |->
     IF j \in rows THEN [subs[j] EXCEPT !.isActive = FALSE, !.endDate = 0]
     ELSE subs[j]]

Deactivate(subs, rows) ==
  [j \in 1..Len(subs) |->
     IF j \in rows THEN [subs[j] EXCEPT !.isActive = FALSE] ELSE subs[j]]

\* origin is history: the payment or voucher the row was created for
NewSubscription(u, planType, start, end, origin) ==
  [userId |-> u, planType |-> planType, startDate |-> start,
   endDate |-> end, isActive |-> TRUE, origin |-> origin]

\* lines 23-54 and 96-98: parse, findUnique, the status guard, the branch
CbReceive(w, body, dbOk) ==
  /\ wk[w].pc = "idle"
  /\ LET p == parseCallback(body)
         i == FindByCheckout(p.checkoutRequestId)
     IN  IF ~p.ok
           THEN /\ response' = CbAccepted("Callback processing error", 0)
                /\ UNCHANGED wk
         ELSE IF ~dbOk
           THEN /\ response' = CbAccepted("Callback processing error",
                                          p.checkoutRequestId)
                /\ UNCHANGED wk
         ELSE IF i = 0
           THEN /\ response' = CbAccepted("Transaction not found",
                                          p.checkoutRequestId)
                /\ UNCHANGED wk
         ELSE IF AlreadyProcessed(transactions[i])
           THEN /\ response' = CbAccepted("Transaction already processed", i)
                /\ UNCHANGED wk
         ELSE /\ wk' = [wk EXCEPT ![w] =
                   [IdleWorker EXCEPT
                      !.pc = IF p.resultCode = 0 THEN "tx_update"
                             ELSE "fail_update",
                      !.txId = i,
                      !.resultDesc = p.resultDesc,
                      !.receipt = p.mpesaReceiptNumber]]
              /\ UNCHANGED response
  /\ UNCHANGED <<predictions, client, now, ticks, transactions, subscriptions, vouchers, userPhone,
                 session, stkCalls>>

\* lines 58-65: tx.transaction.update takes the row, its write is staged
CbTxUpdate(w) ==
  /\ wk[w].pc = "tx_update"
  /\ ~LockHeld(wk[w].txId)
  /\ wk' = [wk EXCEPT ![w].pc = "tx_deactivate"]
  /\ UNCHANGED <<predictions, client, now, ticks, transactions, subscriptions, vouchers, userPhone,
                 session, stkCalls, response>>

\* lines 68-76: tx.subscription.updateMany picks the rows active right now
CbTxDeactivate(w) ==
  /\ wk[w].pc = "tx_deactivate"
  /\ wk' = [wk EXCEPT ![w].pc = "tx_create",
                      ![w].deact = ActiveRows(transactions[wk[w].txId].userId)]
  /\ UNCHANGED <<predictions, client, now, ticks, transactions, subscriptions, vouchers, userPhone,
                 session, stkCalls, response>>

\* lines 79-94: tx.subscription.create, then the transaction commits
CbTxCommit(w) ==
  /\ wk[w].pc = "tx_create"
  /\ Len(subscriptions) < MaxSubs
  /\ LET i == wk[w].txId
         t == transactions[i]
     IN  /\ transactions' = [transactions EXCEPT
                ![i] = SuccessUpdate(t, wk[w].receipt, wk[w].resultDesc)]
         /\ subscriptions' =
              Append(Deactivate(subscriptions, wk[w].deact),
                     NewSubscription(t.userId, t.planType, now,
                                     calculateEndDate(t.planType, now),
                                     [kind |-> "payment", ref |-> i]))
  /\ wk' = [wk EXCEPT ![w] = IdleWorker]
  /\ response' = CbProcessed("Subscription created", wk[w].txId)
  /\ UNCHANGED <<predictions, client, now, ticks, vouchers, userPhone, session, stkCalls>>

\* lines 100-106: prisma.transaction.update outside any transaction
CbFailUpdate(w) ==
  /\ wk[w].pc = "fail_update"
  /\ ~LockHeld(wk[w].txId)
  /\ transactions' = [transactions EXCEPT
        ![wk[w].txId] = FailedUpdate(@, wk[w].resultDesc)]
  /\ wk' = [wk EXCEPT ![w] = IdleWorker]
  /\ response' = CbProcessed("Payment failed", wk[w].txId)
  /\ UNCHANGED <<predictions, client, now, ticks, subscriptions, vouchers, userPhone, session,
                 stkCalls>>

CbPcs == {"tx_update", "tx_deactivate", "tx_create", "fail_update"}

\* lines 116-124: a store operation throws; an open transaction rolls back
CbFault(w) ==
  /\ wk[w].pc \in CbPcs
  /\ wk' = [wk EXCEPT ![w] = IdleWorker]
  /\ response' = CbAccepted("Callback processing error", wk[w].txId)
  /\ UNCHANGED <<predictions, client, now, ticks, transactions, subscriptions, vouchers, userPhone,
                 session, stkCalls>>


\* Navbar: signOut
Logout(u) ==
  /\ session[u].loggedIn
  /\ session' = [session EXCEPT ![u] = NoSession]
  /\ UNCHANGED <<predictions, client, now, ticks, transactions, subscriptions, vouchers,
                 userPhone, wk, stkCalls, response>>

\* ------------------------------------------------- POST /api/mpesa/stkpush
StkError(status, error) == [ep |-> "stkpush", status |-> status, error |-> error]

ProcessorOutcomes == {"accept", "reject", "throw"}

\* faulty variant: the owner is not recorded and the row is not PENDING
NewTransaction_Orphan(u, cid, planType, phone, t) ==
  [userId |-> 0, merchantRequestID |-> cid, checkoutRequestID |-> cid,
   amount |-> getPlanPrice(planType), phone |-> formatPhoneNumber(phone),
   planType |-> planType, status |-> "FAILED", mpesaReceipt |-> NULL,
   resultDesc |-> NULL, createdAt |-> t]

NewTransaction(u, cid, planType, phone, t) ==
  [userId |-> u, merchantRequestID |-> cid, checkoutRequestID |-> cid,
   amount |-> getPlanPrice(planType), phone |-> formatPhoneNumber(phone),
   planType |-> planType, status |-> "PENDING", mpesaReceipt |-> NULL,
   resultDesc |-> NULL, createdAt |-> t]

\* faulty variant: the pending check comes before the active check
StkPush_PendingFirst(u, phone, planType, outcome) ==
  /\ IF ~session[u].loggedIn
       THEN /\ response' = StkError(401, "Please log in to make a payment")
            /\ UNCHANGED <<transactions, userPhone, stkCalls>>
     ELSE IF Len(phone) < MinPhoneLen
       THEN /\ response' = StkError(400, "Invalid phone number")
            /\ UNCHANGED <<transactions, userPhone, stkCalls>>
     ELSE IF RecentPending(u, now) # {}
       THEN /\ \E i \in RecentPending(u, now) :
                 response' = [ep |-> "stkpush", status |-> 400,
                              error |-> "You have a pending payment",
                              checkoutRequestId |-> transactions[i].checkoutRequestID]
            /\ UNCHANGED <<transactions, userPhone, stkCalls>>
     ELSE IF ActiveSubs(u, now) # {}
       THEN /\ \E j \in ActiveSubs(u, now) :
                 response' = [ep |-> "stkpush", status |-> 400,
                              error |-> "You already have an active subscription",
                              subscriptionEnd |-> subscriptions[j].endDate]
            /\ UNCHANGED <<transactions, userPhone, stkCalls>>
     ELSE /\ stkCalls < MaxCalls
          /\ stkCalls' = stkCalls + 1
          /\ IF outcome = "throw"
               THEN /\ response' = StkError(500, "Failed to initiate payment")
                    /\ UNCHANGED <<transactions, userPhone>>
             ELSE IF outcome = "reject"
               THEN /\ response' = StkError(400, "ResponseDescription")
                    /\ UNCHANGED <<transactions, userPhone>>
             ELSE /\ Len(transactions) < MaxTx
                  /\ LET cid == Len(transactions) + 1
                     IN  /\ transactions' = Append(transactions,
                               NewTransaction(u, cid, planType, phone, now))
                         /\ response' = [ep |-> "stkpush", status |-> 200,
                                         success |-> TRUE,
                                         checkoutRequestId |-> cid]
                  /\ userPhone' = IF session[u].phone = NoPhone
                                    THEN [userPhone EXCEPT ![u] = formatPhoneNumber(phone)]
                                    ELSE userPhone
  /\ UNCHANGED <<predictions, client, now, ticks, subscriptions, vouchers, session, wk>>

\* the processor answers the push: accepted with fresh ids, refused, or the
\* token or push request throws
StkPush(u, phone, planType, outcome) ==
  /\ IF ~session[u].loggedIn
       THEN /\ response' = StkError(401, "Please log in to make a payment")
            /\ UNCHANGED <<transactions, userPhone, stkCalls>>
     ELSE IF Len(phone) < MinPhoneLen
       THEN /\ response' = StkError(400, "Invalid phone number")
            /\ UNCHANGED <<transactions, userPhone, stkCalls>>
     ELSE IF ActiveSubs(u, now) # {}
       THEN /\ \E j \in ActiveSubs(u, now) :
                 response' = [ep |-> "stkpush", status |-> 400,
                              error |-> "You already have an active subscription",
                              subscriptionEnd |-> subscriptions[j].endDate]
            /\ UNCHANGED <<transactions, userPhone, stkCalls>>
     ELSE IF RecentPending(u, now) # {}
       THEN /\ \E i \in RecentPending(u, now) :
                 response' = [ep |-> "stkpush", status |-> 400,
                              error |-> "You have a pending payment",
                              checkoutRequestId |-> transactions[i].checkoutRequestID]
            /\ UNCHANGED <<transactions, userPhone, stkCalls>>
     ELSE /\ stkCalls < MaxCalls
          /\ stkCalls' = stkCalls + 1
          /\ IF outcome = "throw"
               THEN /\ response' = StkError(500, "Failed to initiate payment")
                    /\ UNCHANGED <<transactions, userPhone>>
             ELSE IF outcome = "reject"
               THEN /\ response' = StkError(400, "ResponseDescription")
                    /\ UNCHANGED <<transactions, userPhone>>
             ELSE /\ Len(transactions) < MaxTx
                  /\ LET cid == Len(transactions) + 1
                     IN  /\ transactions' = Append(transactions,
                               NewTransaction(u, cid, planType, phone, now))
                         /\ response' = [ep |-> "stkpush", status |-> 200,
                                         success |-> TRUE,
                                         checkoutRequestId |-> cid]
                  /\ userPhone' = IF session[u].phone = NoPhone
                                    THEN [userPhone EXCEPT ![u] = formatPhoneNumber(phone)]
                                    ELSE userPhone
  /\ UNCHANGED <<predictions, client, now, ticks, subscriptions, vouchers, session, wk>>

\* ------------------------------------------------- GET /api/mpesa/status
Max(S) == CHOOSE x \in S : \A y \in S : y <= x

\* faulty variant: the lookup is by checkoutRequestID alone
FindOwned_AnyOwner(u, cid) == FindByCheckout(cid)

\* findFirst({ where: { checkoutRequestID, userId } }); 0 = null
FindOwned(u, cid) ==
  LET i == FindByCheckout(cid)
  IN  IF i # 0 /\ transactions[i].userId = u THEN i ELSE 0

StatusResponse(u, cid) ==
  IF ~session[u].loggedIn
    THEN [ep |-> "status", status |-> 401, error |-> "Unauthorized"]
  ELSE IF FindOwned(u, cid) = 0
    THEN [ep |-> "status", status |-> 404, error |-> "Transaction not found"]
  ELSE LET t == transactions[FindOwned(u, cid)]
           S == ActiveSubs(u, now)
       IN  [ep |-> "status", status |-> 200, txStatus |-> t.status,
            mpesaReceipt |-> t.mpesaReceipt, resultDesc |-> t.resultDesc,
            subscription |->
              IF t.status = "SUCCESS" /\ S # {}
                THEN [planType |-> subscriptions[Max(S)].planType,
                      endDate |-> subscriptions[Max(S)].endDate]
                ELSE NoSubscription]

\* faulty variant: the poll retires the caller's subscriptions as it reads
StatusPoll_Retire(u, cid) ==
  /\ response' = [ep |-> "status", userId |-> u, checkoutRequestId |-> cid,
                  body |-> StatusResponse(u, cid)]
  /\ subscriptions' = Deactivate(subscriptions, ActiveRows(u))
  /\ UNCHANGED <<predictions, client, now, ticks, transactions, vouchers, userPhone,
                 session, wk, stkCalls>>

\* the reply is kept with the caller and the id it was asked for
StatusPoll(u, cid) ==
  /\ response' = [ep |-> "status", userId |-> u, checkoutRequestId |-> cid,
                  body |-> StatusResponse(u, cid)]
  /\ UNCHANGED <<predictions, client, now, ticks, transactions, subscriptions, vouchers, userPhone,
                 session, wk, stkCalls>>

\* ------------------------------------------------- POST /api/vouchers
CreateVoucher(planType) ==
  /\ Len(vouchers) < MaxVouchers
  /\ vouchers' = Append(vouchers,
        [planType |-> planType, isRedeemed |-> FALSE, redeemedBy |-> NULL,
         expiresAt |-> now + VoucherValidDays * DayMinutes])
  /\ UNCHANGED <<predictions, client, now, ticks, transactions, subscriptions, userPhone, session,
                 wk, stkCalls, response>>

\* ------------------------------------------------- POST /api/vouchers/redeem
RedeemError(status, error) == [ep |-> "redeem", status |-> status, error |-> error]

VoucherDays(planType) ==
  CASE planType = "DAILY" -> 1
    [] planType = "WEEKLY" -> WeekDays
    [] planType = "MONTHLY" -> MonthDays

\* lines 10-40: session, findUnique, the redeemed and expiry checks
RedeemFind(w, u, code) ==
  /\ wk[w].pc = "idle"
  /\ IF ~session[u].loggedIn
       THEN /\ response' = RedeemError(401, "Please log in to redeem a voucher")
            /\ UNCHANGED wk
     ELSE IF code \notin 1..Len(vouchers)
       THEN /\ response' = RedeemError(400, "Invalid voucher code")
            /\ UNCHANGED wk
     ELSE IF vouchers[code].isRedeemed
       THEN /\ response' = RedeemError(400, "This voucher has already been used")
            /\ UNCHANGED wk
     ELSE IF now > vouchers[code].expiresAt
       THEN /\ response' = RedeemError(400, "This voucher has expired")
            /\ UNCHANGED wk
     ELSE /\ wk' = [wk EXCEPT ![w] =
               [IdleWorker EXCEPT !.pc = "rd_commit", !.userId = u,
                                  !.code = code, !.at = now]]
          /\ UNCHANGED response
  /\ UNCHANGED <<predictions, client, now, ticks, transactions, subscriptions, vouchers, userPhone,
                 session, stkCalls>>

\* lines 58-76: prisma.$transaction([subscription.create, voucher.update])
RedeemCommit(w) ==
  /\ wk[w].pc = "rd_commit"
  /\ Len(subscriptions) < MaxSubs
  /\ LET v == vouchers[wk[w].code]
         end == wk[w].at + VoucherDays(v.planType) * DayMinutes
     IN  /\ subscriptions' = Append(subscriptions,
               NewSubscription(wk[w].userId, v.planType, wk[w].at, end,
                               [kind |-> "voucher", ref |-> wk[w].code]))
         /\ vouchers' = [vouchers EXCEPT
               ![wk[w].code] = [@ EXCEPT !.isRedeemed = TRUE,
                                         !.redeemedBy = wk[w].userId]]
         /\ response' = [ep |-> "redeem", status |-> 200,
                         planType |-> v.planType, endDate |-> end]
  /\ wk' = [wk EXCEPT ![w] = IdleWorker]
  /\ UNCHANGED <<predictions, client, now, ticks, transactions, userPhone, session, stkCalls>>

\* lines 94-97: the batch throws and nothing of it is written
RedeemFault(w) ==
  /\ wk[w].pc = "rd_commit"
  /\ wk' = [wk EXCEPT ![w] = IdleWorker]
  /\ response' = RedeemError(500, "Failed to redeem voucher")
  /\ UNCHANGED <<predictions, client, now, ticks, transactions, subscriptions, vouchers, userPhone,
                 session, stkCalls>>

\* ------------------------------------------------- /api/predictions
\* what a caller without a subscription gets in place of a premium tip:
\* tip '(lock) VIP Only', analysis null, odds null (0: odds are positive)
MaskedTip == "VIP Only"
NoOdds == 0

\* POST, lines 92-119, by the admin; odds are 2 throughout
CreatePrediction(isPremium, tip, analysis) ==
  /\ Len(predictions) < MaxPredictions
  /\ predictions' = Append(predictions,
        [isPremium |-> isPremium, tip |-> tip, odds |-> 2,
         analysis |-> analysis])
  /\ UNCHANGED <<client, now, ticks, transactions, subscriptions, vouchers,
                 userPhone, session, wk, stkCalls, response>>

\* lines 40-44: the type filter
TypeFilter(type, pred) ==
  CASE type = "free" -> ~pred.isPremium
    [] type = "premium" -> pred.isPremium
    [] OTHER -> TRUE

\* faulty variant: any signed-in caller counts as subscribed
HasSubscription_SignedIn(u) == session[u].loggedIn

\* lines 52-63: findFirst({ userId, isActive: true, endDate >= now })
HasSubscription(u) == session[u].loggedIn /\ ActiveSubs(u, now) # {}

\* lines 66-76
Masked(pred, has) ==
  IF pred.isPremium /\ ~has
    THEN [pred EXCEPT !.tip = MaskedTip, !.analysis = NULL, !.odds = NoOdds]
    ELSE pred

\* GET, lines 25-81; u's browser calls, with or without a session
GetPredictions(u, type) ==
  /\ LET has == HasSubscription(u)
         found == SelectSeq(predictions, LAMBDA pred : TypeFilter(type, pred))
     IN  response' = [ep |-> "predictions", userId |-> u, type |-> type,
                      predictions |-> [k \in 1..Len(found) |-> Masked(found[k], has)],
                      hasActiveSubscription |-> has]
  /\ UNCHANGED <<predictions, client, now, ticks, transactions, subscriptions,
                 vouchers, userPhone, session, wk, stkCalls>>

\* ------------------------------------------------- middleware, /vip paths
\* lines 2459-2508 for a path under /vip: no token -> /login, a token
\* without the hasActiveSubscription claim -> /pricing, else the page
middleware(u) ==
  /\ response' = [ep |-> "vip", userId |-> u,
                  go |-> IF ~session[u].loggedIn THEN "/login"
                         ELSE IF ~session[u].hasActiveSubscription THEN "/pricing"
                         ELSE "next"]
  /\ UNCHANGED <<predictions, client, now, ticks, transactions, subscriptions,
                 vouchers, userPhone, session, wk, stkCalls>>

\* dashboard, line 111, after a voucher was redeemed: update({
\* hasActiveSubscription: true }), taken over by the jwt callback's
\* 'update' branch
SessionUpdate(u) ==
  /\ session[u].loggedIn
  /\ response.ep = "redeem" /\ response.status = 200
  /\ \E v \in 1..Len(vouchers) :
        vouchers[v].isRedeemed /\ vouchers[v].redeemedBy = u
  /\ session' = [session EXCEPT ![u].hasActiveSubscription = TRUE]
  /\ UNCHANGED <<predictions, client, now, ticks, transactions, subscriptions,
                 vouchers, userPhone, wk, stkCalls, response>>

\* ------------------------------------------------- PaymentModal (client)
\* handleSubmit, lines 64-67
ClientSubmit ==
  /\ client.status = "idle"
  /\ client' = [client EXCEPT !.status = "initiating", !.error = ""]
  /\ UNCHANGED <<predictions, now, ticks, transactions, subscriptions, vouchers, userPhone,
                 session, wk, stkCalls, response>>

\* handleSubmit, lines 76-87: the reply of the initiation arrives; on
\* 'waiting' the effect of lines 23-62 starts its interval and its timeout
ClientInitiated ==
  /\ client.status = "initiating"
  /\ response.ep = "stkpush"
  /\ client' = IF response.status = 200
                 THEN [client EXCEPT !.status = "waiting",
                                     !.checkoutRequestId = response.checkoutRequestId,
                                     !.elapsed = 0]
                 ELSE [client EXCEPT !.status = "failed",
                                     !.error = response.error]
  /\ response' = [ep |-> "none"]
  /\ UNCHANGED <<predictions, now, ticks, transactions, subscriptions, vouchers, userPhone,
                 session, wk, stkCalls>>

\* what res.json() of a poll holds: status and resultDesc, or neither
PollData(u, cid) ==
  LET r == StatusResponse(u, cid)
  IN  IF r.status = 200
        THEN [status |-> r.txStatus, resultDesc |-> r.resultDesc]
        ELSE [status |-> NULL, resultDesc |-> NULL]

\* lines 26-28: the interval fires while the effect is live and a fetch
\* leaves; its reply is in flight until ClientReceive
ClientPoll(u) ==
  /\ client.status = "waiting"
  /\ client.elapsed + PollIntervalMs <= PollWindowMs
  /\ client' = [client EXCEPT
        !.elapsed = @ + PollIntervalMs,
        !.inflight = @ \cup {PollData(u, client.checkoutRequestId)}]
  /\ UNCHANGED <<predictions, now, ticks, transactions, subscriptions, vouchers, userPhone,
                 session, wk, stkCalls, response>>

\* lines 29-43: a reply arrives and the rest of the interval callback runs,
\* whatever the modal's status is by then
ClientReceive(d) ==
  /\ d \in client.inflight
  /\ client' =
       IF d.status = "SUCCESS"
         THEN [client EXCEPT !.inflight = @ \ {d}, !.status = "success"]
       ELSE IF d.status = "FAILED"
         THEN [client EXCEPT !.inflight = @ \ {d}, !.status = "failed",
                 !.error = IF d.resultDesc = NULL THEN "Payment failed"
                           ELSE d.resultDesc]
       ELSE [client EXCEPT !.inflight = @ \ {d}]
  /\ UNCHANGED <<predictions, now, ticks, transactions, subscriptions, vouchers, userPhone,
                 session, wk, stkCalls, response>>

\* lines 50-56: the timeout fires once no interval firing precedes it; the
\* status its closure holds is 'waiting'
ClientTimeout ==
  /\ client.status = "waiting"
  /\ client.elapsed + PollIntervalMs >= PollWindowMs
  /\ client' = [client EXCEPT !.status = "failed", !.elapsed = PollWindowMs,
                              !.error = "Payment timed out. Please try again."]
  /\ UNCHANGED <<predictions, now, ticks, transactions, subscriptions, vouchers, userPhone,
                 session, wk, stkCalls, response>>

\* lines 192-195: Try Again
ClientRetry ==
  /\ client.status = "failed"
  /\ client' = [client EXCEPT !.status = "idle", !.error = ""]
  /\ UNCHANGED <<predictions, now, ticks, transactions, subscriptions, vouchers, userPhone,
                 session, wk, stkCalls, response>>

\* ------------------------------------------------------------------ Spec
\* every user has signed in, before any phone of record was stored
InitSignedIn ==
  /\ now = 0
  /\ ticks = 0
  /\ transactions = <<>>
  /\ subscriptions = <<>>
  /\ vouchers = <<>>
  /\ userPhone = [u \in Users |-> NoPhone]
  /\ session = [u \in Users |-> [loggedIn |-> TRUE, phone |-> NoPhone,
                                  hasActiveSubscription |-> FALSE]]
  /\ wk = [w \in Workers |-> IdleWorker]
  /\ stkCalls = 0
  /\ response = [ep |-> "none"]
  /\ client = IdleClient
  /\ predictions = <<>>

\* the callback handler's steps after the payload was received
CbSteps ==
  \/ \E w \in Workers : CbTxUpdate(w)
  \/ \E w \in Workers : CbTxDeactivate(w)
  \/ \E w \in Workers : CbTxCommit(w)
  \/ \E w \in Workers : CbFailUpdate(w)
  \/ \E w \in Workers : CbFault(w)

\* a success and a failure payload per checkout id, and one without envelope
PayBodies ==
  {Malformed} \cup
  { Body(c, 0, "processed", ReceiptItems) : c \in 1..(MaxTx + 1) } \cup
  { Body(c, 1, "cancelled", <<>>) : c \in 1..(MaxTx + 1) }

\* one user's payments and their callbacks, handled concurrently
NextPay ==
  \/ Tick(PendingWindow + 1)
  \/ StkPush(1, ValidPhone, "WEEKLY", "accept")
  \/ \E w \in Workers, body \in PayBodies, dbOk \in BOOLEAN :
        CbReceive(w, body, dbOk)
  \/ CbSteps

SpecPay == InitSignedIn /\ [][NextPay]_vars

SuccessBodies == { Body(c, 0, "processed", ReceiptItems) : c \in 1..MaxTx }
FailureBodies == { Body(c, 1, "cancelled", <<>>) : c \in 1..MaxTx }

\* payments of every plan, confirmed some time after they were started
NextPlans ==
  \/ Tick(PendingWindow + 1)
  \/ \E planType \in PlanTypes : StkPush(1, ValidPhone, planType, "accept")
  \/ \E w \in Workers, body \in SuccessBodies \cup FailureBodies :
        CbReceive(w, body, TRUE)
  \/ CbSteps

SpecPlans == InitSignedIn /\ [][NextPlans]_vars

\* initiations with every input and processor outcome, between payments
\* that are confirmed or refused one at a time while subscriptions run out
NextInitiate ==
  \/ \E d \in {PendingWindow + 1, DayMinutes} : Tick(d)
  \/ \E phone \in RawPhones, outcome \in ProcessorOutcomes :
        StkPush(1, phone, "DAILY", outcome)
  \/ \E body \in SuccessBodies \cup FailureBodies : CbReceive(1, body, TRUE)
  \/ CbSteps

SpecInitiate == InitSignedIn /\ [][NextInitiate]_vars

\* initiations of both users around the 5-minute window, with requests that
\* the processor refuses and payments that fail
NextResume ==
  \/ \E d \in {2, 3} : Tick(d)
  \/ \E u \in Users, outcome \in {"accept", "reject"} :
        StkPush(u, ValidPhone, "DAILY", outcome)
  \/ \E body \in FailureBodies : CbReceive(1, body, TRUE)
  \/ CbFailUpdate(1)

SpecResume == InitSignedIn /\ [][NextResume]_vars

\* both users pay, user 1 redeems, one request at a time; both poll every id
NextPoll ==
  \/ Tick(DayMinutes)
  \/ \E u \in Users : StkPush(u, ValidPhone, "DAILY", "accept")
  \/ \E body \in SuccessBodies \cup FailureBodies : CbReceive(1, body, TRUE)
  \/ CbTxUpdate(1)
  \/ CbTxDeactivate(1)
  \/ CbTxCommit(1)
  \/ CbFailUpdate(1)
  \/ CreateVoucher("WEEKLY")
  \/ RedeemFind(1, 1, 1)
  \/ RedeemCommit(1)
  \/ \E u \in Users, cid \in 1..(MaxTx + 1) : StatusPoll(u, cid)

SpecPoll == InitSignedIn /\ [][NextPoll]_vars

\* the four written forms of one number
LocalForm == <<"0","7","1","2","3","4","5","6","7","8">>
PlusForm == <<"+","2","5","4","7","1","2","3","4","5","6","7","8">>
BareForm == <<"2","5","4","7","1","2","3","4","5","6","7","8">>
ShortForm == <<"7","1","2","3","4","5","6","7","8">>
PhoneForms == {LocalForm, PlusForm, BareForm, ShortForm}

Separators == {" ", "-"}

\* c written before the character at position k + 1 of p
InsertAt(p, c, k) == SubSeq(p, 1, k) \o <<c>> \o SubSeq(p, k + 1, Len(p))

\* the forms with up to n separators written anywhere in them
RECURSIVE Separated(_)
Separated(n) ==
  IF n = 0 THEN PhoneForms
  ELSE Separated(n - 1) \cup
       UNION { { InsertAt(p, c, k) : c \in Separators, k \in 0..Len(p) } :
                 p \in Separated(n - 1) }

\* formatPhoneNumber is called with one of the inputs and returns
InitPhone ==
  /\ now = 0
  /\ ticks = 0
  /\ transactions = <<>>
  /\ subscriptions = <<>>
  /\ vouchers = <<>>
  /\ userPhone = [u \in Users |-> NoPhone]
  /\ session = [u \in Users |-> NoSession]
  /\ wk = [w \in Workers |-> IdleWorker]
  /\ stkCalls = 0
  /\ response \in { [ep |-> "formatPhoneNumber", phone |-> p, returned |-> FALSE,
                     result |-> <<>>] : p \in Separated(MaxSeps) }
  /\ client = IdleClient
  /\ predictions = <<>>

FormatPhone ==
  /\ response.ep = "formatPhoneNumber"
  /\ ~response.returned
  /\ response' = [response EXCEPT !.returned = TRUE,
                                  !.result = formatPhoneNumber(response.phone)]
  /\ UNCHANGED <<predictions, client, now, ticks, transactions, subscriptions, vouchers, userPhone,
                 session, wk, stkCalls>>

SpecPhone == InitPhone /\ [][FormatPhone]_vars

\* user 1 pays through the modal: the initiation is served while the modal
\* is initiating and its reply reaches the modal before the processor's
\* callback is received
NextClient ==
  \/ ClientSubmit
  \/ \E phone \in RawPhones, outcome \in ProcessorOutcomes :
        /\ client.status = "initiating"
        /\ response.ep # "stkpush"
        /\ StkPush(1, phone, "DAILY", outcome)
  \/ ClientInitiated
  \/ ClientPoll(1)
  \/ \E d \in client.inflight : ClientReceive(d)
  \/ ClientTimeout
  \/ ClientRetry
  \/ \E body \in SuccessBodies \cup FailureBodies :
        client.status # "initiating" /\ CbReceive(1, body, TRUE)
  \/ CbTxUpdate(1)
  \/ CbTxDeactivate(1)
  \/ CbTxCommit(1)
  \/ CbFailUpdate(1)

SpecClient == InitSignedIn /\ [][NextClient]_vars

\* user 1 signs in and out and initiates with good and bad input while
\* payments are confirmed and time passes beyond the pending window
NextOrder ==
  \/ Tick(PendingWindow + 1)
  \/ Login(1)
  \/ Logout(1)
  \/ \E phone \in RawPhones, outcome \in {"accept", "reject"} :
        StkPush(1, phone, "DAILY", outcome)
  \/ \E body \in SuccessBodies : CbReceive(1, body, TRUE)
  \/ CbTxUpdate(1)
  \/ CbTxDeactivate(1)
  \/ CbTxCommit(1)

SpecOrder == Init /\ [][NextOrder]_vars

\* phone inputs of every shape: digits, too short, with letters, with
\* spaces, and separators only
LetterPhone == <<"0","7","a","b","3","4","5","6","7","8">>
SpacedPhone == <<"0","7","1","2"," ","3","4","5"," ","6","7","8">>
DashPhone == <<"-","-","-","-","-","-","-","-","-">>
ShapeInputs == {ValidPhone, ShortPhone, LetterPhone, SpacedPhone, DashPhone}

\* user 1 initiates with each of them, a new attempt after each window
NextShape ==
  \/ Tick(PendingWindow + 1)
  \/ \E phone \in ShapeInputs, outcome \in {"accept", "reject"} :
        StkPush(1, phone, "DAILY", outcome)

SpecShape == InitSignedIn /\ [][NextShape]_vars

\* a second number of the same user
OtherPhone == <<"0","7","9","9","9","9","9","9","9","9">>

\* users sign in before or after their first payment and pay again later
\* from either number, each attempt after the previous one's window
NextBackfill ==
  \/ Tick(PendingWindow + 1)
  \/ \E u \in Users : Login(u)
  \/ \E u \in Users : Logout(u)
  \/ \E u \in Users, phone \in {ValidPhone, OtherPhone},
        outcome \in {"accept", "reject"} :
        StkPush(u, phone, "DAILY", outcome)

SpecBackfill == Init /\ [][NextBackfill]_vars

\* user 1 pays for a day and redeems a weekly voucher, user 2 signs out;
\* both read the predictions while the grants are replaced and run out
NextContent ==
  \/ Tick(DayMinutes)
  \/ Logout(2)
  \/ StkPush(1, ValidPhone, "DAILY", "accept")
  \/ \E body \in SuccessBodies : CbReceive(1, body, TRUE)
  \/ CbTxUpdate(1)
  \/ CbTxDeactivate(1)
  \/ CbTxCommit(1)
  \/ CreateVoucher("WEEKLY")
  \/ RedeemFind(1, 1, 1)
  \/ RedeemCommit(1)
  \/ \E isPremium \in BOOLEAN : CreatePrediction(isPremium, "home win", "form")
  \/ \E u \in Users, type \in {"all", "free", "premium"} : GetPredictions(u, type)

SpecContent == InitSignedIn /\ [][NextContent]_vars

\* user 1 signs in and out around a one-day payment and a voucher and
\* opens a /vip page, as does user 2, while the grants run out
NextGate ==
  \/ Tick(DayMinutes)
  \/ Login(1)
  \/ Logout(1)
  \/ StkPush(1, ValidPhone, "DAILY", "accept")
  \/ \E body \in SuccessBodies : CbReceive(1, body, TRUE)
  \/ CbTxUpdate(1)
  \/ CbTxDeactivate(1)
  \/ CbTxCommit(1)
  \/ CreateVoucher("DAILY")
  \/ RedeemFind(1, 1, 1)
  \/ RedeemCommit(1)
  \/ SessionUpdate(1)
  \/ \E u \in Users : middleware(u)

SpecGate == InitSignedIn /\ [][NextGate]_vars

\* metadata of a success payload: names the parser does not know, the
\* known names without the receipt, and the receipt among unknown names
UnknownItems == <<[Name |-> "Balance", Value |-> "0"]>>
NoReceiptItems ==
  <<[Name |-> "Amount", Value |-> "50"],
    [Name |-> "PhoneNumber", Value |-> "254712345678"]>>
MixedItems == UnknownItems \o ReceiptItems

\* success payloads whose CallbackMetadata.Item is absent (hasItems FALSE),
\* an empty list, or one of the lists above
MetadataBodies ==
  { [Body(c, 0, "processed", <<>>) EXCEPT !.hasItems = h] :
      c \in 1..MaxTx, h \in BOOLEAN } \cup
  { Body(c, 0, "processed", items) :
      c \in 1..MaxTx,
      items \in {UnknownItems, NoReceiptItems, MixedItems, ReceiptItems} }

\* payments confirmed by payloads with every kind of metadata
NextMetadata ==
  \/ Tick(DayMinutes)
  \/ StkPush(1, ValidPhone, "DAILY", "accept")
  \/ \E w \in Workers, body \in MetadataBodies : CbReceive(w, body, TRUE)
  \/ \E w \in Workers : CbTxUpdate(w)
  \/ \E w \in Workers : CbTxDeactivate(w)
  \/ \E w \in Workers : CbTxCommit(w)

SpecMetadata == InitSignedIn /\ [][NextMetadata]_vars

\* both users pay and user 2 redeems a voucher while callbacks of either
\* kind for every checkout id are handled concurrently
NextFrame ==
  \/ \E u \in Users : StkPush(u, ValidPhone, "DAILY", "accept")
  \/ \E w \in Workers, body \in SuccessBodies \cup FailureBodies :
        CbReceive(w, body, TRUE)
  \/ CbSteps
  \/ CreateVoucher("WEEKLY")
  \/ RedeemFind(1, 2, 1)
  \/ RedeemCommit(1)

SpecFrame == InitSignedIn /\ [][NextFrame]_vars

\* the ledger's two writers: confirmed payments and redeemed vouchers
NextLedger ==
  \/ StkPush(1, ValidPhone, "DAILY", "accept")
  \/ \E w \in Workers, body \in SuccessBodies \cup FailureBodies :
        CbReceive(w, body, TRUE)
  \/ CbSteps
  \/ CreateVoucher("DAILY")
  \/ \E w \in Workers, u \in Users, code \in 1..(MaxVouchers + 1) :
        RedeemFind(w, u, code)
  \/ \E w \in Workers : RedeemCommit(w)
  \/ \E w \in Workers : RedeemFault(w)

SpecLedger == InitSignedIn /\ [][NextLedger]_vars

\* the whole system
Next ==
  \/ \E d \in TickSteps : Tick(d)
  \/ \E u \in Users : Login(u)
  \/ \E u \in Users, phone \in RawPhones, planType \in PlanTypes,
        outcome \in ProcessorOutcomes : StkPush(u, phone, planType, outcome)
  \/ \E w \in Workers, body \in CallbackBodies, dbOk \in BOOLEAN :
        CbReceive(w, body, dbOk)
  \/ CbSteps
  \/ \E u \in Users, cid \in 1..(MaxTx + 1) : StatusPoll(u, cid)
  \/ \E planType \in PlanTypes : CreateVoucher(planType)
  \/ \E w \in Workers, u \in Users, code \in 1..(MaxVouchers + 1) :
        RedeemFind(w, u, code)
  \/ \E w \in Workers : RedeemCommit(w)
  \/ \E w \in Workers : RedeemFault(w)

Spec == Init /\ [][Next]_vars

\* ---------------------------------------------------------------- claims
Payment(i) == [kind |-> "payment", ref |-> i]

\* the subscriptions that reconciling transaction i created
FromPayment(subs, i) == { j \in 1..Len(subs) : subs[j].origin = Payment(i) }

Last(seq) == seq[Len(seq)]

\* this step inserted a subscription for transaction i
Inserted(i) ==
  /\ Len(subscriptions') = Len(subscriptions) + 1
  /\ Last(subscriptions').origin = Payment(i)

\* C2: success callbacks handled concurrently for one checkoutRequestID
\* create exactly one subscription for that request.
C2_OneGrantPerRequest ==
  \A i \in 1..Len(transactions) :
    Cardinality(FromPayment(subscriptions, i)) <= 1

\* C3: no committed state mixes the two outcomes of the success transition:
\* a request that is SUCCESS has its subscription, and a subscription created
\* for a request exists only while that request is SUCCESS.
C3_NoMixedState ==
  \A i \in 1..Len(transactions) :
    /\ transactions[i].status = "SUCCESS" => FromPayment(subscriptions, i) # {}
    /\ FromPayment(subscriptions, i) # {} => transactions[i].status = "SUCCESS"

\* The transaction of the success branch, taken alone, is atomic.  A request
\* becomes SUCCESS in the very step that inserts its active subscription and
\* deactivates the rows the transaction selected; the steps inside the
\* transaction and a fault in it leave requests and subscriptions as they
\* were; no state has a SUCCESS request without its subscription or a PENDING
\* one with it.
SuccessTxAtomic ==
  [][ /\ \A i \in 1..Len(transactions) :
           /\ (transactions[i].status # "SUCCESS"
                 /\ transactions'[i].status = "SUCCESS") => Inserted(i)
           /\ Inserted(i) =>
                /\ transactions'[i].status = "SUCCESS"
                /\ Last(subscriptions').isActive
                /\ Last(subscriptions').userId = transactions[i].userId
                /\ \E w \in Workers :
                     /\ wk[w].pc = "tx_create" /\ wk[w].txId = i
                     /\ wk'[w].pc = "idle"
                     /\ \A j \in wk[w].deact : ~subscriptions'[j].isActive
                     /\ \A j \in 1..Len(subscriptions) :
                          subscriptions'[j] # subscriptions[j] => j \in wk[w].deact
           /\ transactions'[i].status = "SUCCESS" =>
                FromPayment(subscriptions', i) # {}
           /\ transactions'[i].status = "PENDING" =>
                FromPayment(subscriptions', i) = {}
      /\ (\E w \in Workers : CbTxUpdate(w) \/ CbTxDeactivate(w) \/ CbFault(w))
           => UNCHANGED <<transactions, subscriptions>>
    ]_vars

\* a request is SUCCESS, its subscription is active and an earlier
\* subscription of the same user, from another source, is deactivated
SuccessTxAtomic_Witness ==
  \E i \in 1..Len(transactions) :
    /\ transactions[i].status = "SUCCESS"
    /\ \E j \in FromPayment(subscriptions, i) :
         /\ subscriptions[j].isActive
         /\ \E k \in 1..(j - 1) :
              /\ subscriptions[k].userId = subscriptions[j].userId
              /\ ~subscriptions[k].isActive
              /\ subscriptions[k].origin # Payment(i)

\* C4: a success callback delivered again after the first delivery was fully
\* processed changes nothing: the request, every subscription and every
\* worker are as they were.
C4_DuplicateIsNoOp ==
  [][ \A w \in Workers, body \in PayBodies :
        ( /\ body.hasEnvelope
          /\ body.ResultCode = 0
          /\ wk[w].pc = "idle"
          /\ \E i \in 1..Len(transactions) :
               /\ transactions[i].checkoutRequestID = body.CheckoutRequestID
               /\ transactions[i].status = "SUCCESS"
               /\ \A v \in Workers : wk[v].txId # i
          /\ CbReceive(w, body, TRUE) )
        => /\ UNCHANGED <<transactions, subscriptions, vouchers, userPhone>>
           /\ wk' = wk
    ]_vars

C4_Witness ==
  /\ response.ep = "callback"
  /\ response.log = "Transaction already processed"
  /\ transactions[response.ref].status = "SUCCESS"
  /\ Cardinality(FromPayment(subscriptions, response.ref)) = 1
  /\ \A v \in Workers : wk[v].pc = "idle"

\* C5: SUCCESS and FAILED are terminal: a request in either status keeps its
\* status, receipt and description in every later step.
C5_TerminalStatus ==
  [][ \A i \in 1..Len(transactions) :
        transactions[i].status \in {"SUCCESS", "FAILED"} =>
          /\ transactions'[i].status = transactions[i].status
          /\ transactions'[i].mpesaReceipt = transactions[i].mpesaReceipt
          /\ transactions'[i].resultDesc = transactions[i].resultDesc
    ]_vars

\* C7: the write of a failure callback for a PENDING request sets it FAILED
\* with the callback's description and touches no subscription; the status
\* poller then reports FAILED with that description and no subscription.
C7_FailureFrame ==
  [][ \A w \in Workers :
        (CbFailUpdate(w) /\ transactions[wk[w].txId].status = "PENDING") =>
          LET i == wk[w].txId
              t == transactions[i]
          IN  /\ transactions'[i].status = "FAILED"
              /\ transactions'[i].resultDesc = wk[w].resultDesc
              /\ subscriptions' = subscriptions
              /\ \A k \in 1..Len(transactions) :
                   k # i => transactions'[k] = transactions[k]
              /\ \E u \in Users, c \in 1..MaxTx, d \in ResultDescs :
                   /\ u = t.userId
                   /\ c = t.checkoutRequestID
                   /\ d = wk[w].resultDesc
                   /\ LET r == StatusResponse(u, c)'
                      IN  /\ r.status = 200
                          /\ r.txStatus = "FAILED"
                          /\ r.resultDesc = d
                          /\ r.subscription = NoSubscription
    ]_vars

C7_Witness ==
  /\ response.ep = "callback"
  /\ response.log = "Payment failed"
  /\ transactions[response.ref].status = "FAILED"
  /\ transactions[response.ref].resultDesc = "cancelled"
  /\ FromPayment(subscriptions, response.ref) = {}

\* C8: a callback without the stkCallback envelope, or with a
\* checkoutRequestID that no transaction has, changes nothing in the store
\* and starts no work.
C8_UnmatchedIsNoOp ==
  [][ \A w \in Workers, body \in PayBodies, dbOk \in BOOLEAN :
        ( /\ wk[w].pc = "idle"
          /\ \/ ~body.hasEnvelope
             \/ \A i \in 1..Len(transactions) :
                  transactions[i].checkoutRequestID # body.CheckoutRequestID
          /\ CbReceive(w, body, dbOk) )
        => /\ UNCHANGED <<transactions, subscriptions, vouchers, userPhone>>
           /\ wk' = wk
    ]_vars

C8_Witness ==
  /\ response.ep = "callback"
  /\ response.log = "Transaction not found"
  /\ Len(transactions) > 0
  /\ \E i \in 1..Len(transactions) : transactions[i].status = "PENDING"

\* C9: every reply of the callback endpoint is HTTP 200 with ResultCode 0.
C9_AlwaysAcknowledged ==
  response.ep = "callback" => response.status = 200 /\ response.ResultCode = 0

\* the reply to a callback whose store operation threw
C9_Witness ==
  /\ response.ep = "callback"
  /\ response.log = "Callback processing error"
  /\ response.ref \in 1..Len(transactions)

\* C1: each user has at most one subscription that is active and ends after
\* the current instant.
C1_SingleActiveGrant ==
  \A u \in Users :
    Cardinality({ j \in 1..Len(subscriptions) :
                    /\ subscriptions[j].userId = u
                    /\ subscriptions[j].isActive
                    /\ subscriptions[j].endDate > now }) <= 1

\* C6: the commit of a success callback sets the request SUCCESS and inserts
\* one active subscription of the request's owner and plan that starts at
\* the instant of the commit and ends 1, 7 or 30 days after it.
C6_GrantFromNow ==
  [][ \A w \in Workers :
        CbTxCommit(w) =>
          LET i == wk[w].txId
              t == transactions[i]
              g == Last(subscriptions')
          IN  /\ transactions'[i].status = "SUCCESS"
              /\ Len(subscriptions') = Len(subscriptions) + 1
              /\ g.userId = t.userId
              /\ g.planType = t.planType
              /\ g.isActive
              /\ g.startDate = now
              /\ g.endDate = now + (CASE t.planType = "DAILY" -> 1440
                                      [] t.planType = "WEEKLY" -> 10080
                                      [] t.planType = "MONTHLY" -> 43200)
    ]_vars

\* a MONTHLY payment confirmed later than it was started
C6_Witness ==
  \E i \in 1..Len(transactions) :
    /\ transactions[i].status = "SUCCESS"
    /\ transactions[i].planType = "MONTHLY"
    /\ \E j \in FromPayment(subscriptions, i) :
         /\ subscriptions[j].startDate > transactions[i].createdAt
         /\ subscriptions[j].endDate = subscriptions[j].startDate + 43200

\* C10: a well-formed initiation by a signed-in user who holds a subscription
\* with isActive and endDate >= now is answered 400 with that subscription's
\* end, makes no processor call and writes nothing.
C10_ActiveRejected ==
  [][ \A u \in Users, phone \in RawPhones, planType \in PlanTypes,
         outcome \in ProcessorOutcomes :
        ( /\ session[u].loggedIn
          /\ Len(phone) >= 9
          /\ \E j \in 1..Len(subscriptions) :
               /\ subscriptions[j].userId = u
               /\ subscriptions[j].isActive
               /\ subscriptions[j].endDate >= now
          /\ StkPush(u, phone, planType, outcome) )
        => /\ response'.ep = "stkpush"
           /\ response'.status = 400
           /\ response'.error = "You already have an active subscription"
           /\ \E j \in 1..Len(subscriptions) :
                /\ subscriptions[j].userId = u
                /\ subscriptions[j].isActive
                /\ subscriptions[j].endDate >= now
                /\ response'.subscriptionEnd = subscriptions[j].endDate
           /\ stkCalls' = stkCalls
           /\ UNCHANGED <<transactions, subscriptions, vouchers, userPhone>>
    ]_vars

\* the rejection at the very instant the subscription ends
C10_Witness ==
  /\ response.ep = "stkpush"
  /\ response.status = 400
  /\ response.error = "You already have an active subscription"
  /\ response.subscriptionEnd = now
  /\ stkCalls = 1

\* C11: a well-formed initiation by a signed-in user without an active
\* subscription who has a PENDING request created at most 5 minutes ago is
\* answered 400 with the checkoutRequestID of such a request, makes no
\* processor call and writes nothing; and after every step no user has two
\* PENDING requests created within 5 minutes of each other.
C11_PendingRejected ==
  [][ /\ \A u \in Users, phone \in RawPhones, planType \in PlanTypes,
            outcome \in ProcessorOutcomes :
           ( /\ session[u].loggedIn
             /\ Len(phone) >= 9
             /\ \A j \in 1..Len(subscriptions) :
                  ~( /\ subscriptions[j].userId = u
                     /\ subscriptions[j].isActive
                     /\ subscriptions[j].endDate >= now )
             /\ \E i \in 1..Len(transactions) :
                  /\ transactions[i].userId = u
                  /\ transactions[i].status = "PENDING"
                  /\ transactions[i].createdAt >= now - 5
             /\ StkPush(u, phone, planType, outcome) )
           => /\ response'.ep = "stkpush"
              /\ response'.status = 400
              /\ response'.error = "You have a pending payment"
              /\ \E i \in 1..Len(transactions) :
                   /\ transactions[i].userId = u
                   /\ transactions[i].status = "PENDING"
                   /\ transactions[i].createdAt >= now - 5
                   /\ response'.checkoutRequestId = transactions[i].checkoutRequestID
              /\ stkCalls' = stkCalls
              /\ UNCHANGED <<transactions, subscriptions, vouchers, userPhone>>
      /\ \A i, k \in 1..Len(transactions') :
           ( /\ i < k
             /\ transactions'[i].userId = transactions'[k].userId
             /\ transactions'[i].status = "PENDING"
             /\ transactions'[k].status = "PENDING" )
           => transactions'[k].createdAt - transactions'[i].createdAt > 5
    ]_vars

\* the rejection exactly 5 minutes after the pending request was created
C11_Witness ==
  /\ response.ep = "stkpush"
  /\ response.status = 400
  /\ response.error = "You have a pending payment"
  /\ transactions[response.checkoutRequestId].status = "PENDING"
  /\ transactions[response.checkoutRequestId].createdAt = now - 5
  /\ stkCalls = 1


C13_ForeignIsNotFound ==
  [][ \A a \in Users, cid \in 1..(MaxTx + 1) :
        ( /\ session[a].loggedIn
          /\ \E i \in 1..Len(transactions) :
               /\ transactions[i].checkoutRequestID = cid
               /\ transactions[i].userId # a
          /\ StatusPoll(a, cid) )
        => /\ response'.body =
                [ep |-> "status", status |-> 404, error |-> "Transaction not found"]
           /\ response'.body = StatusResponse(a, Len(transactions) + 1)
    ]_vars

\* user 1 was answered 404 for the id of user 2's confirmed payment
C13_Witness ==
  /\ response.ep = "status"
  /\ response.userId = 1
  /\ response.body.status = 404
  /\ response.checkoutRequestId \in 1..Len(transactions)
  /\ transactions[response.checkoutRequestId].userId = 2
  /\ transactions[response.checkoutRequestId].status = "SUCCESS"
  /\ FromPayment(subscriptions, response.checkoutRequestId) # {}


\* C14: when a poll reports SUCCESS with a subscription, that subscription
\* is one created by reconciling the polled request: it has the request's
\* plan and ends that plan's duration after it started.
C14_ReportsOwnGrant ==
  [][ \A u \in Users, cid \in 1..(MaxTx + 1) :
        ( /\ StatusPoll(u, cid)
          /\ response'.body.status = 200
          /\ response'.body.txStatus = "SUCCESS"
          /\ response'.body.subscription # NoSubscription )
        => \E i \in 1..Len(transactions) :
             /\ transactions[i].checkoutRequestID = cid
             /\ \E j \in FromPayment(subscriptions, i) :
                  /\ subscriptions[j].planType = transactions[i].planType
                  /\ subscriptions[j].endDate =
                       subscriptions[j].startDate +
                         (CASE transactions[i].planType = "DAILY" -> 1440
                            [] transactions[i].planType = "WEEKLY" -> 10080
                            [] transactions[i].planType = "MONTHLY" -> 43200)
                  /\ response'.body.subscription =
                       [planType |-> subscriptions[j].planType,
                        endDate |-> subscriptions[j].endDate]
    ]_vars


\* C15: a poll, by any caller for any checkoutRequestID, leaves every
\* Payment Request, subscription, voucher and user as it was.
C15_PollIsRead ==
  [][ \A u \in Users, cid \in 1..(MaxTx + 1) :
        StatusPoll(u, cid) =>
          /\ transactions' = transactions
          /\ subscriptions' = subscriptions
          /\ vouchers' = vouchers
          /\ userPhone' = userPhone
          /\ session' = session
    ]_vars

\* a poll answered SUCCESS with a subscription while the caller's payment,
\* subscription and a redeemed voucher are all in the store
C15_Witness ==
  /\ response.ep = "status"
  /\ response.body.status = 200
  /\ response.body.txStatus = "SUCCESS"
  /\ response.body.subscription # NoSubscription
  /\ \E v \in 1..Len(vouchers) : vouchers[v].isRedeemed
  /\ \E j \in 1..Len(subscriptions) :
       subscriptions[j].userId = response.userId /\ subscriptions[j].isActive


\* the subscriptions that redeeming voucher v created
FromVoucher(subs, v) ==
  { j \in 1..Len(subs) : subs[j].origin = [kind |-> "voucher", ref |-> v] }

\* C16: over any interleaving of redemption requests, a voucher yields at
\* most one subscription, and that one starts no later than the voucher's
\* expiry.
C16_RedeemedOnce ==
  \A v \in 1..Len(vouchers) :
    /\ Cardinality(FromVoucher(subscriptions, v)) <= 1
    /\ \A j \in FromVoucher(subscriptions, v) :
         subscriptions[j].startDate <= vouchers[v].expiresAt


\* C17: the local, plus-country-coded, bare-country-coded and
\* country-code-missing forms of 0712345678, with or without spaces and
\* dashes, all normalize to 254712345678.
C17_OneCanonicalForm ==
  (response.ep = "formatPhoneNumber" /\ response.returned) =>
    response.result = <<"2","5","4","7","1","2","3","4","5","6","7","8">>

\* the plus form written with a space and a dash was normalized
C17_Witness ==
  /\ response.ep = "formatPhoneNumber"
  /\ response.returned
  /\ response.phone = <<"+","2","5","4"," ","7","1","2","-","3","4","5","6","7","8">>
  /\ response.result = <<"2","5","4","7","1","2","3","4","5","6","7","8">>


\* C18: a modal that is waiting leaves that state within the 2-minute
\* window: a reply SUCCESS takes it to 'success', a reply FAILED to 'failed'
\* with the processor's description, and the timeout to 'failed' with the
\* timeout message; once it has left 'waiting' no poll is issued and a reply
\* that arrives late changes neither its status nor its message.
C18_LeavesWaitingOnce ==
  [][ /\ client'.status = "waiting" => client'.elapsed <= 120000
      /\ \A d \in client.inflight :
           (client.status = "waiting" /\ ClientReceive(d)) =>
             /\ d.status = "SUCCESS" => client'.status = "success"
             /\ d.status = "FAILED" =>
                  client'.status = "failed" /\ client'.error = d.resultDesc
             /\ d.status \notin {"SUCCESS", "FAILED"} => client'.status = "waiting"
      /\ (client.status = "waiting" /\ ClientTimeout) =>
           /\ client'.status = "failed"
           /\ client'.error = "Payment timed out. Please try again."
      /\ client.status \in {"success", "failed"} =>
           /\ client'.inflight \subseteq client.inflight
           /\ (\E d \in client.inflight : ClientReceive(d)) =>
                client'.status = client.status /\ client'.error = client.error
    ]_vars


\* C19: the commit of a redemption deactivates every active subscription of
\* the redeeming user and inserts one active subscription, so that right
\* after it the user has exactly one active subscription, the new one.
C19_RedeemActivates ==
  [][ \A w \in Workers :
        RedeemCommit(w) =>
          LET u == wk[w].userId
          IN  /\ Len(subscriptions') = Len(subscriptions) + 1
              /\ Last(subscriptions').userId = u
              /\ Last(subscriptions').isActive
              /\ \A j \in 1..Len(subscriptions) :
                   subscriptions[j].userId = u => ~subscriptions'[j].isActive
              /\ Cardinality({ j \in 1..Len(subscriptions') :
                                 /\ subscriptions'[j].userId = u
                                 /\ subscriptions'[j].isActive }) = 1
    ]_vars


\* C20: the number of subscriptions equals the number of SUCCESS requests
\* plus the number of redeemed vouchers.
C20_GrantCount ==
  Len(subscriptions) =
    Cardinality({ i \in 1..Len(transactions) : transactions[i].status = "SUCCESS" })
    + Cardinality({ v \in 1..Len(vouchers) : vouchers[v].isRedeemed })


\* C21: subscriptions are append-only apart from the active flag: every step
\* keeps every existing row with its owner, plan, start and end, and changes
\* isActive at most from true to false.
C21_AppendOnly ==
  [][ /\ Len(subscriptions') >= Len(subscriptions)
      /\ \A j \in 1..Len(subscriptions) :
           /\ subscriptions'[j].userId = subscriptions[j].userId
           /\ subscriptions'[j].planType = subscriptions[j].planType
           /\ subscriptions'[j].startDate = subscriptions[j].startDate
           /\ subscriptions'[j].endDate = subscriptions[j].endDate
           /\ subscriptions'[j].origin = subscriptions[j].origin
           /\ subscriptions'[j].isActive => subscriptions[j].isActive
    ]_vars

\* a voucher's subscription was superseded by a confirmed payment
C21_Witness ==
  \E j, k \in 1..Len(subscriptions) :
    /\ j < k
    /\ subscriptions[j].origin.kind = "voucher"
    /\ ~subscriptions[j].isActive
    /\ subscriptions[k].origin.kind = "payment"
    /\ subscriptions[k].isActive
    /\ subscriptions[k].userId = subscriptions[j].userId


\* C22: a well-formed initiation by a signed-in user without an active
\* subscription, all of whose PENDING requests were created more than 5
\* minutes ago, is not answered with the pending-payment error: the
\* processor is called and every existing request is left as it is; and a
\* request leaves PENDING only in the write of a callback for it.
C22_StalePendingIgnored ==
  [][ /\ \A u \in Users, phone \in RawPhones, planType \in PlanTypes,
            outcome \in ProcessorOutcomes :
           ( /\ session[u].loggedIn
             /\ Len(phone) >= 9
             /\ \A j \in 1..Len(subscriptions) :
                  ~( /\ subscriptions[j].userId = u
                     /\ subscriptions[j].isActive
                     /\ subscriptions[j].endDate >= now )
             /\ \E i \in 1..Len(transactions) :
                  transactions[i].userId = u /\ transactions[i].status = "PENDING"
             /\ \A i \in 1..Len(transactions) :
                  (transactions[i].userId = u /\ transactions[i].status = "PENDING")
                    => transactions[i].createdAt < now - 5
             /\ StkPush(u, phone, planType, outcome) )
           => /\ stkCalls' = stkCalls + 1
              /\ response'.status = 200 \/ response'.error # "You have a pending payment"
              /\ SubSeq(transactions', 1, Len(transactions)) = transactions
      /\ \A i \in 1..Len(transactions) :
           (transactions[i].status = "PENDING" /\ transactions'[i].status # "PENDING")
             => \E w \in Workers :
                  /\ wk[w].txId = i
                  /\ CbTxCommit(w) \/ CbFailUpdate(w)
    ]_vars

\* a second request was created while the first, older than 5 minutes, is
\* still PENDING
C22_Witness ==
  /\ response.ep = "stkpush"
  /\ response.status = 200
  /\ response.checkoutRequestId = 2
  /\ Len(transactions) = 2
  /\ transactions[1].status = "PENDING"
  /\ transactions[2].status = "PENDING"
  /\ transactions[1].userId = transactions[2].userId
  /\ transactions[2].createdAt - transactions[1].createdAt > 5


\* C23: an initiation is answered by the first precondition that fails, in
\* the order session, input shape, active subscription, recent PENDING
\* request, whatever the later ones are; and whenever one fails there is no
\* processor call and no write.
C23_PreconditionOrder ==
  [][ \A u \in Users, phone \in RawPhones, planType \in PlanTypes,
         outcome \in ProcessorOutcomes :
        StkPush(u, phone, planType, outcome) =>
          LET signedIn == session[u].loggedIn
              shaped == Len(phone) >= 9
              active == \E j \in 1..Len(subscriptions) :
                          /\ subscriptions[j].userId = u
                          /\ subscriptions[j].isActive
                          /\ subscriptions[j].endDate >= now
              pending == \E i \in 1..Len(transactions) :
                           /\ transactions[i].userId = u
                           /\ transactions[i].status = "PENDING"
                           /\ transactions[i].createdAt >= now - 5
              noEffect == /\ stkCalls' = stkCalls
                          /\ UNCHANGED <<transactions, subscriptions, vouchers,
                                         userPhone>>
          IN  /\ ~signedIn =>
                   /\ response'.status = 401
                   /\ response'.error = "Please log in to make a payment"
                   /\ noEffect
              /\ (signedIn /\ ~shaped) =>
                   /\ response'.status = 400
                   /\ response'.error = "Invalid phone number"
                   /\ noEffect
              /\ (signedIn /\ shaped /\ active) =>
                   /\ response'.status = 400
                   /\ response'.error = "You already have an active subscription"
                   /\ \E j \in 1..Len(subscriptions) :
                        /\ subscriptions[j].userId = u
                        /\ response'.subscriptionEnd = subscriptions[j].endDate
                   /\ noEffect
              /\ (signedIn /\ shaped /\ ~active /\ pending) =>
                   /\ response'.status = 400
                   /\ response'.error = "You have a pending payment"
                   /\ \E i \in 1..Len(transactions) :
                        /\ transactions[i].userId = u
                        /\ response'.checkoutRequestId =
                             transactions[i].checkoutRequestID
                   /\ noEffect
              /\ (signedIn /\ shaped /\ ~active /\ ~pending) =>
                   stkCalls' = stkCalls + 1
    ]_vars

\* the validation error was given to a signed-in user who also holds an
\* active subscription and a recent PENDING request
C23_Witness ==
  /\ response.ep = "stkpush"
  /\ response.status = 400
  /\ response.error = "Invalid phone number"
  /\ session[1].loggedIn
  /\ \E j \in 1..Len(subscriptions) :
       /\ subscriptions[j].userId = 1
       /\ subscriptions[j].isActive
       /\ subscriptions[j].endDate >= now
  /\ \E i \in 1..Len(transactions) :
       /\ transactions[i].userId = 1
       /\ transactions[i].status = "PENDING"
       /\ transactions[i].createdAt >= now - 5


\* C24: an initiation by a signed-in user is accepted only if its phone,
\* with spaces, dashes and a leading plus removed, is all digits and at least
\* 9 long; any other phone is answered with the validation error and no
\* processor call; and every phone stored on a Payment Request is the
\* 12-digit string that starts with 254.
C24_PhoneShape ==
  [][ /\ \A u \in Users, phone \in ShapeInputs, planType \in PlanTypes,
            outcome \in ProcessorOutcomes :
           (session[u].loggedIn /\ StkPush(u, phone, planType, outcome)) =>
             LET IsSep(c) == c \in {" ", "-", "+"}
                 NotSep(c) == ~IsSep(c)
                 stripped == SelectSeq(phone, NotSep)
                 wellFormed ==
                   /\ \A k \in 1..Len(stripped) :
                        stripped[k] \in {"0","1","2","3","4","5","6","7","8","9"}
                   /\ Len(stripped) >= 9
             IN  ~wellFormed =>
                   /\ response'.status = 400
                   /\ response'.error = "Invalid phone number"
                   /\ stkCalls' = stkCalls
                   /\ transactions' = transactions
      /\ \A i \in 1..Len(transactions') :
           /\ Len(transactions'[i].phone) = 12
           /\ SubSeq(transactions'[i].phone, 1, 3) = <<"2","5","4">>
           /\ \A k \in 1..12 :
                transactions'[i].phone[k] \in
                  {"0","1","2","3","4","5","6","7","8","9"}
    ]_vars

\* C25: the phone of record is written only by an accepted initiation and
\* only while it is absent: once a user has a stored phone, no step changes
\* it, whichever number a later initiation uses and whenever the session it
\* runs under was created.
C25_PhoneWrittenOnce ==
  [][ \A u \in Users :
        /\ userPhone'[u] # userPhone[u] =>
             /\ userPhone[u] = NoPhone
             /\ Len(transactions') = Len(transactions) + 1
             /\ Last(transactions').userId = u
             /\ userPhone'[u] = Last(transactions').phone
        /\ userPhone[u] # NoPhone => userPhone'[u] = userPhone[u]
    ]_vars

\* the ledger's current(user, now), read off the store
Current(u) ==
  \E j \in 1..Len(subscriptions) :
     /\ subscriptions[j].userId = u
     /\ subscriptions[j].isActive
     /\ subscriptions[j].endDate >= now

\* C26: GET predictions hands the stored tip, odds and analysis of a premium
\* prediction only to a signed-in caller who owns, at that instant, a grant
\* with isActive and endDate >= now; every other caller gets the masked
\* values for every premium prediction, and free predictions are returned
\* as stored.
C26_PremiumOnlyToSubscribers ==
  [][ \A u \in Users, type \in {"all", "free", "premium"} :
        GetPredictions(u, type) =>
          LET entitled == session[u].loggedIn /\ Current(u)
              found == SelectSeq(predictions, LAMBDA pred : TypeFilter(type, pred))
          IN  /\ Len(response'.predictions) = Len(found)
              /\ \A k \in 1..Len(found) :
                   IF found[k].isPremium /\ ~entitled
                     THEN /\ response'.predictions[k].tip = MaskedTip
                          /\ response'.predictions[k].odds = NoOdds
                          /\ response'.predictions[k].analysis = NULL
                     ELSE response'.predictions[k] = found[k]
    ]_vars

\* a signed-in user whose only unexpired grant was deactivated and whose
\* other grant ran out has read a premium prediction and got the mask
C26_Witness ==
  /\ response.ep = "predictions"
  /\ session[response.userId].loggedIn
  /\ ~Current(response.userId)
  /\ \E j \in 1..Len(subscriptions) :
        /\ subscriptions[j].userId = response.userId
        /\ ~subscriptions[j].isActive
        /\ subscriptions[j].endDate >= now
  /\ \E j \in 1..Len(subscriptions) :
        /\ subscriptions[j].userId = response.userId
        /\ subscriptions[j].isActive
        /\ subscriptions[j].endDate < now
  /\ \E k \in 1..Len(response.predictions) :
        /\ response.predictions[k].isPremium
        /\ response.predictions[k].tip = MaskedTip

\* C27: the gate of the /vip paths lets a signed-in user through only if
\* the store holds, at that instant, a grant of that user with isActive and
\* endDate >= now, and sends every other signed-in user to pricing; a
\* session created while a grant was current does not admit the user after
\* that grant has expired or was deactivated.
C27_GateReadsLedger ==
  [][ \A u \in Users :
        (session[u].loggedIn /\ middleware(u)) =>
          /\ response'.go = "next" => Current(u)
          /\ ~Current(u) => response'.go = "/pricing"
    ]_vars

\* the receipt a payload supplies, if any
SuppliedReceipt(body) ==
  IF body.hasItems /\ \E k \in 1..Len(body.Item) :
                         body.Item[k].Name = "MpesaReceiptNumber"
    THEN (CHOOSE v \in {"R1"} : \E k \in 1..Len(body.Item) :
            body.Item[k].Name = "MpesaReceiptNumber" /\ body.Item[k].Value = v)
    ELSE NULL

\* C28: a success callback whose metadata list is absent, empty, made of
\* unknown names or without the receipt number is parsed and reconciled like
\* any other: the parse does not fail, a PENDING request goes into the
\* success transaction, which sets it to SUCCESS, writes the supplied
\* receipt or leaves the receipt column as it was (null) when none was
\* supplied, and creates the grant.
C28_MetadataTolerated ==
  [][ /\ \A w \in Workers, body \in MetadataBodies :
           CbReceive(w, body, TRUE) =>
             LET i == FindByCheckout(body.CheckoutRequestID)
             IN  /\ response' = response
                    \/ response'.log \in {"Transaction not found",
                                          "Transaction already processed"}
                 /\ (i # 0 /\ transactions[i].status = "PENDING") =>
                      /\ wk'[w].pc = "tx_update"
                      /\ wk'[w].txId = i
                      /\ wk'[w].receipt = SuppliedReceipt(body)
      /\ \A w \in Workers :
           CbTxCommit(w) =>
             LET i == wk[w].txId
             IN  /\ transactions'[i].status = "SUCCESS"
                 /\ transactions'[i].mpesaReceipt =
                      IF wk[w].receipt = NULL THEN transactions[i].mpesaReceipt
                      ELSE wk[w].receipt
                 /\ transactions[i].status = "PENDING" /\ wk[w].receipt = NULL
                      => transactions'[i].mpesaReceipt = NULL
                 /\ Len(subscriptions') = Len(subscriptions) + 1
                 /\ Last(subscriptions').userId = transactions[i].userId
                 /\ Last(subscriptions').isActive
    ]_vars

\* a payment was confirmed without a receipt and has its grant
C28_Witness ==
  /\ response.ep = "callback"
  /\ response.log = "Subscription created"
  /\ transactions[response.ref].status = "SUCCESS"
  /\ transactions[response.ref].mpesaReceipt = NULL
  /\ FromPayment(subscriptions, response.ref) # {}

\* C29: in every reachable state a Payment Request carries a processor
\* receipt only if its status is SUCCESS; PENDING and FAILED requests have
\* none, under any sequence or interleaving of callbacks.
C29_ReceiptOnlyOnSuccess ==
  \A i \in 1..Len(transactions) :
     transactions[i].mpesaReceipt # NULL => transactions[i].status = "SUCCESS"

\* a step of the callback handler on worker w
CbStep(w) ==
  \/ \E body \in SuccessBodies \cup FailureBodies : CbReceive(w, body, TRUE)
  \/ CbTxUpdate(w)
  \/ CbTxDeactivate(w)
  \/ CbTxCommit(w)
  \/ CbFailUpdate(w)
  \/ CbFault(w)

\* the request the handler on worker w writes to in its next step, 0 if none
Matched(w) == IF wk[w].pc \in CbPcs THEN wk[w].txId ELSE 0

\* C30: handling a callback for checkoutRequestID X changes at most the
\* Payment Request with that id and the grants of that request's user: every
\* other request, every grant of another user, the vouchers and the phones
\* of record stay as they are, no request is added or removed, and the
\* matched request keeps its id, owner, plan, amount and phone.
C30_CallbackFrame ==
  [][ \A w \in Workers :
        CbStep(w) =>
          LET x == Matched(w)
          IN  /\ \A body \in SuccessBodies \cup FailureBodies :
                   (CbReceive(w, body, TRUE) /\ wk'[w].pc \in CbPcs) =>
                     transactions[wk'[w].txId].checkoutRequestID =
                       body.CheckoutRequestID
              /\ Len(transactions') = Len(transactions)
              /\ \A i \in 1..Len(transactions) :
                   /\ i # x => transactions'[i] = transactions[i]
                   /\ transactions'[i].checkoutRequestID =
                        transactions[i].checkoutRequestID
                   /\ transactions'[i].userId = transactions[i].userId
                   /\ transactions'[i].planType = transactions[i].planType
                   /\ transactions'[i].amount = transactions[i].amount
                   /\ transactions'[i].phone = transactions[i].phone
              /\ \A j \in 1..Len(subscriptions) :
                   (x = 0 \/ subscriptions[j].userId # transactions[x].userId)
                     => subscriptions'[j] = subscriptions[j]
              /\ \A j \in (Len(subscriptions) + 1)..Len(subscriptions') :
                   x # 0 /\ subscriptions'[j].userId = transactions[x].userId
              /\ Len(subscriptions') >= Len(subscriptions)
              /\ UNCHANGED <<vouchers, userPhone, session, predictions>>
    ]_vars

\* a callback was reconciled while another request and a grant of the
\* other user were in the store
C30_Witness ==
  /\ response.ep = "callback"
  /\ response.log \in {"Subscription created", "Payment failed"}
  /\ \E i \in 1..Len(transactions) :
        /\ i # response.ref
        /\ transactions[i].userId = transactions[response.ref].userId
  /\ \E j \in 1..Len(subscriptions) :
        subscriptions[j].userId # transactions[response.ref].userId

====
